---- MODULE Spec2Model ----
(***************************************************************************)
(* Martian chess rule engine: the two engine variants of the repository,   *)
(* src/src/lib.rs (with src/src/pieces.rs and src/src/board.rs) and        *)
(* src/src/main.rs, driven by the play loop that reads moves from stdin.   *)
(***************************************************************************)
EXTENDS Integers, Sequences, FiniteSets, TLC

VARIABLES
    variant,    \* which engine runs: "lib" (lib.rs) or "main" (main.rs)
    board,      \* MartianChess.board: index 0..31 -> Option<Piece>
    turn,       \* MartianChess.turn
    score,      \* MartianChess.score, <<score.0, score.1>>
    prev_move,  \* MartianChess.prev_move, <<>> for None and <<m>> for Some(m)
    clock,      \* MartianChess.clock
    pc,         \* position of the process: "play", "over" (loop left), "panicked"
    winner,     \* the player announced after the loop, 0 while none is
    input,      \* the lines of stdin still to be read, as parsed moves
    free,       \* how many further lines may be read after them
    pre,        \* the game as it was when the last line was read
    last        \* the last line read and what move_piece returned for it

vars == <<variant, board, turn, score, prev_move, clock, pc, winner,
          input, free, pre, last>>

----------------------------------------------------------------------------
(* Pieces and points: pieces.rs, main.rs enum Piece *)

None == "None"
Pawn == "Pawn"
Drone == "Drone"
Queen == "Queen"
Piece == {Pawn, Drone, Queen}

Rows == 8
Cols == 4
Sentinel == 32
ClockStartLib == 8
ClockStartMain == 7

Cells == 0 .. (Rows * Cols - 1)
Position == [row : 0 .. (Rows - 1), col : 0 .. (Cols - 1)]
Pos(r, c) == [row |-> r, col |-> c]
Mv(s, d) == [src |-> s, dst |-> d]
ClockMove == Mv(Pos(Sentinel, Sentinel), Pos(Sentinel, Sentinel))
BoardMoves == [src : Position, dst : Position]
Moves == BoardMoves \cup {ClockMove}

Abs(x) == IF x < 0 THEN -x ELSE x
\* mutant: the sign of a negative difference is taken for 0
signum_never_negative(x) == IF x > 0 THEN 1 ELSE 0

signum(x) == IF x < 0 THEN -1 ELSE IF x > 0 THEN 1 ELSE 0

\* mutant: a queen taken counts 2 points
points_queen_counts_two(p) == CASE p = Pawn -> 1 [] p = Drone -> 2 [] p = Queen -> 2

\* Piece::points (lib) and `p as u8` on the enum discriminants (main)
points(p) == CASE p = Pawn -> 1 [] p = Drone -> 2 [] p = Queen -> 3
discriminant(p) == CASE p = Pawn -> 1 [] p = Drone -> 2 [] p = Queen -> 3

\* results of the fallible functions
Ok(v) == [kind |-> "Ok", err |-> <<>>, val |-> v]
Err(e, v) == [kind |-> "Err", err |-> e, val |-> v]
Panic(e, v) == [kind |-> "Panic", err |-> e, val |-> v]

----------------------------------------------------------------------------
(* Board *)

position_to_index(p) == Cols * p.row + p.col

\* an index the Vec has; a negative coordinate cast to usize is far outside
InVec(p) == p.row >= 0 /\ p.col >= 0 /\ position_to_index(p) \in Cells

get_piece(b, p) == b[position_to_index(p)]

\* mutant: a cell is never emptied
set_piece_never_clears(b, p, v) ==
    IF v = None THEN b ELSE [b EXCEPT ![position_to_index(p)] = v]

set_piece(b, p, v) == [b EXCEPT ![position_to_index(p)] = v]

\* mutant: row 4 is counted with zone 0
get_zone_five_rows(p) == IF p.row <= 4 THEN 0 ELSE 1

get_zone(p) == IF p.row <= 3 THEN 0 ELSE 1

PlaceAll(idx, p, b) == [i \in Cells |-> IF i \in idx THEN p ELSE b[i]]

EmptyBoard == [i \in Cells |-> None]

\* MartianChess::new of main.rs, by index
InitBoardMain ==
    PlaceAll({0, 1, 4, 27, 30, 31}, Queen,
      PlaceAll({2, 5, 8, 23, 26, 29}, Drone,
        PlaceAll({6, 9, 10, 21, 22, 25}, Pawn, EmptyBoard)))

PlacePos(ps, p, b) ==
    [i \in Cells |-> IF \E q \in ps : position_to_index(q) = i THEN p ELSE b[i]]

\* MartianChess::new of lib.rs, by position
InitBoardLib ==
    PlacePos({Pos(0, 0), Pos(0, 1), Pos(1, 0), Pos(6, 3), Pos(7, 2), Pos(7, 3)}, Queen,
      PlacePos({Pos(0, 2), Pos(1, 1), Pos(2, 0), Pos(5, 3), Pos(6, 2), Pos(7, 1)}, Drone,
        PlacePos({Pos(1, 2), Pos(2, 1), Pos(2, 2), Pos(5, 1), Pos(5, 2), Pos(6, 1)}, Pawn,
          EmptyBoard)))

new(v) ==
    [board |-> IF v = "lib" THEN InitBoardLib ELSE InitBoardMain,
     turn |-> 0,
     score |-> <<0, 0>>,
     prev_move |-> <<>>,
     clock |-> -1]

CountIn(b, idx, p) == Cardinality({i \in idx : b[i] = p})
Occupied(b, idx) == Cardinality({i \in idx : b[i] # None})
Zone0 == 0 .. 15
Zone1 == 16 .. 31
ZoneCells(z) == IF z = 0 THEN Zone0 ELSE Zone1

----------------------------------------------------------------------------
(* Piece rules *)

\* mutant: a drone may also move 3 squares along a column
validate_move_lib_three_rows(p, src, dst) ==
    CASE p = Pawn ->
           IF Abs(src.row - dst.row) # 1 \/ Abs(src.col - dst.col) # 1
           THEN "Pawns must move exactly one square diagonally"
           ELSE "Ok"
      [] p = Drone ->
           IF Abs(src.row - dst.row) = 0
           THEN IF Abs(src.col - dst.col) > 2
                THEN "Drones may move only 1 or 2 squares orthogonally"
                ELSE "Ok"
           ELSE IF Abs(src.col - dst.col) = 0
           THEN IF Abs(src.row - dst.row) > 3
                THEN "Drones may move only 1 or 2 squares orthogonally 1"
                ELSE "Ok"
           ELSE "Drones may move only 1 or 2 squares orthogonally"
      [] p = Queen ->
           LET dx == dst.row - src.row
               dy == dst.col - src.col
           IN  IF ~(dx = 0 \/ dy = 0 \/ Abs(dx) = Abs(dy))
               THEN "Queens may only move along a straight line"
               ELSE "Ok"

\* Piece::validate_move of pieces.rs; "Ok" or the error text
validate_move_lib(p, src, dst) ==
    CASE p = Pawn ->
           IF Abs(src.row - dst.row) # 1 \/ Abs(src.col - dst.col) # 1
           THEN "Pawns must move exactly one square diagonally"
           ELSE "Ok"
      [] p = Drone ->
           IF Abs(src.row - dst.row) = 0
           THEN IF Abs(src.col - dst.col) > 2
                THEN "Drones may move only 1 or 2 squares orthogonally"
                ELSE "Ok"
           ELSE IF Abs(src.col - dst.col) = 0
           THEN IF Abs(src.row - dst.row) > 2
                THEN "Drones may move only 1 or 2 squares orthogonally 1"
                ELSE "Ok"
           ELSE "Drones may move only 1 or 2 squares orthogonally"
      [] p = Queen ->
           LET dx == dst.row - src.row
               dy == dst.col - src.col
           IN  IF ~(dx = 0 \/ dy = 0 \/ Abs(dx) = Abs(dy))
               THEN "Queens may only move along a straight line"
               ELSE "Ok"

\* MartianChess::validate_move of main.rs, on the piece found at m.src
validate_move_main(b, m) ==
    LET p == get_piece(b, m.src) IN
    CASE p = Pawn ->
           IF Abs(m.src.row - m.dst.row) # 1 \/ Abs(m.src.col - m.dst.col) # 1
           THEN "Pawns must move exactly one square diagonally"
           ELSE "Ok"
      [] p = Drone ->
           IF Abs(m.src.row - m.dst.row) = 0
           THEN IF Abs(m.src.col - m.dst.col) > 2
                THEN "Drones may move only 1 or 2 squares orthogonally"
                ELSE "Ok"
           ELSE IF Abs(m.src.col - m.dst.col) = 0
           THEN IF Abs(m.src.row - m.dst.row) > 2
                THEN "Drones may move only 1 or 2 squares orthogonally 1"
                ELSE "Ok"
           ELSE "Drones may move only 1 or 2 squares orthogonally"
      [] p = Queen ->
           LET dx == m.dst.row - m.src.row
               dy == m.dst.col - m.src.col
           IN  IF ~(dx = 0 \/ dy = 0 \/ Abs(dx) = Abs(dy))
               THEN "Queens may only move along a straight line"
               ELSE "Ok"
      [] OTHER -> "Ok"

\* Piece::promote of pieces.rs
promote(self, other) ==
    CASE self = Pawn ->
           (CASE other = Pawn -> Ok(Pawn)
              [] other = Drone -> Ok(Queen)
              [] other = Queen -> Err(<<"Cannot promote Queen.">>, None))
      [] self = Drone ->
           (CASE other = Pawn -> Ok(Queen)
              [] other = Drone -> Err(<<"Cannot promote Drone with a Drone">>, None)
              [] other = Queen -> Err(<<"Cannot promote Queen.">>, None))
      [] self = Queen -> Err(<<"Cannot promote Queen.">>, None)

\* the `let new_piece = match ...` of can_promote in main.rs
new_piece_main(s, d) ==
    CASE s = Pawn ->
           (CASE d = Pawn -> Ok(Drone)
              [] d = Drone -> Ok(Queen)
              [] d = Queen -> Err(<<"Tried to promote Queen">>, None)
              [] d = None -> Err(<<"Tried to promote None piece">>, None))
      [] s = Drone ->
           (CASE d = Pawn -> Ok(Queen)
              [] d = Drone -> Err(<<"Tried to promote Drone with Drone">>, None)
              [] d = Queen -> Err(<<"Tried to promote Queen">>, None)
              [] d = None -> Err(<<"Tried to promote None piece">>, None))
      [] s = Queen -> Err(<<"Tried to promote Queen">>, None)
      [] s = None -> Panic(<<"Well this shouldn't be possible...">>, None)

----------------------------------------------------------------------------
(* Path clearance *)

\* the `while n != m.dst` loop of collision_check: "Ok", or the first occupied
\* cell, or the abort of an index outside the Vec
RECURSIVE Walk(_, _, _, _, _)
Walk(b, n, dst, dx, dy) ==
    IF n = dst THEN Ok(n)
    ELSE IF ~InVec(n) THEN Panic(<<"index out of bounds">>, n)
    ELSE IF get_piece(b, n) # None THEN Err(<<"Move blocked by">>, n)
    ELSE Walk(b, Pos(n.row + dx, n.col + dy), dst, dx, dy)

\* the cells the loop of collision_check reads with get_piece, in order: it
\* stops on the destination, on an occupied cell, or on a cell the Vec does
\* not have (where get_piece aborts)
RECURSIVE WalkCells(_, _, _, _, _)
WalkCells(b, n, dst, dx, dy) ==
    IF n = dst THEN << >>
    ELSE IF ~InVec(n) THEN <<n>>
    ELSE IF get_piece(b, n) # None THEN <<n>>
    ELSE <<n>> \o WalkCells(b, Pos(n.row + dx, n.col + dy), dst, dx, dy)

\* mutant: the walk starts on the source cell itself
FirstStep_on_source(m) == m.src

\* the cell next to the source in the direction of the move
FirstStep(m) ==
    Pos(m.src.row + signum(m.dst.row - m.src.row),
        m.src.col + signum(m.dst.col - m.src.col))

\* MartianChess::collision_check of lib.rs
collision_check_lib(b, m) ==
    LET dx == signum(m.dst.row - m.src.row)
        dy == signum(m.dst.col - m.src.col)
        w == Walk(b, FirstStep(m), m.dst, dx, dy)
    IN  IF w.kind = "Err" THEN Err(<<"Move blocked by">>, w.val) ELSE w

\* MartianChess::collision_check of main.rs: the message names the cell
collision_check_main(b, m) ==
    LET dx == signum(m.dst.row - m.src.row)
        dy == signum(m.dst.col - m.src.col)
        w == Walk(b, FirstStep(m), m.dst, dx, dy)
    IN  IF w.kind = "Err" THEN Err(<<"Move blocked by", w.val>>, w.val) ELSE w

----------------------------------------------------------------------------
(* Promotion limits *)

\* the two counting loops and their limits, shared by both can_promote
BoardLimit == 5
ZoneLimit == 1

\* mutant: the board limit compared one too high
board_count_off_by_one(b, new_piece) == CountIn(b, Cells, new_piece) > BoardLimit + 1

board_count_exceeded(b, new_piece) == CountIn(b, Cells, new_piece) > BoardLimit

zone_count_exceeded(b, t, new_piece) ==
    CountIn(b, ZoneCells(t % 2), new_piece) > ZoneLimit

\* MartianChess::can_promote of lib.rs
can_promote_lib(g, m) ==
    LET src_piece == get_piece(g.board, m.src)
        dst_piece == get_piece(g.board, m.dst)
    IN  IF src_piece = None THEN Err(<<"No source piece to promote">>, None)
        ELSE IF dst_piece = None THEN Err(<<"No destination piece to promote">>, None)
        ELSE LET r == promote(src_piece, dst_piece) IN
             IF r.kind # "Ok" THEN r
             ELSE IF board_count_exceeded(g.board, r.val)
             THEN Err(<<"Cannot have more than 6 of one piece on the board">>, None)
             ELSE IF zone_count_exceeded(g.board, g.turn, r.val)
             THEN Err(<<"Cannot promote if piece type already in your zone">>, None)
             ELSE Ok(r.val)

\* MartianChess::can_promote of main.rs; unwrap() of an empty cell aborts
can_promote_main(g, m) ==
    LET s == get_piece(g.board, m.src)
        d == get_piece(g.board, m.dst)
    IN  IF s = None THEN Panic(<<"unwrap on a None value">>, None)
        ELSE IF s = Queen THEN Err(<<"Cannot promote queen">>, None)
        ELSE IF d = None THEN Panic(<<"unwrap on a None value">>, None)
        ELSE IF d = Queen THEN Err(<<"Cannot promote queen">>, None)
        ELSE LET r == new_piece_main(s, d) IN
             IF r.kind # "Ok" THEN r
             ELSE IF board_count_exceeded(g.board, r.val)
             THEN Err(<<"Cannot have more than 6 on the board", r.val>>, None)
             ELSE IF zone_count_exceeded(g.board, g.turn, r.val)
             THEN Err(<<"Cannot promote if a piece is in your zone", r.val>>, None)
             ELSE Ok(r.val)

----------------------------------------------------------------------------
(* move_piece *)

\* mutant: the points go to the player who did not move
AddScore_other_player(sc, t, n) ==
    IF t % 2 = 0 THEN <<sc[1], sc[2] + n>> ELSE <<sc[1] + n, sc[2]>>

AddScore(sc, t, n) ==
    IF t % 2 = 0 THEN <<sc[1] + n, sc[2]>> ELSE <<sc[1], sc[2] + n>>

\* mutant: the source cell is not cleared
Finish_keeps_source(g, m) ==
    [g EXCEPT !.turn = g.turn + 1, !.prev_move = <<m>>]

\* the tail common to every accepted board move: clear src, turn += 1, prev_move
Finish(g, m) ==
    [g EXCEPT !.board = set_piece(g.board, m.src, None),
              !.turn = g.turn + 1,
              !.prev_move = <<m>>]

\* mutant: a capture leaves a running clock as it is
Capture_keeps_clock(g, m, start, pts) ==
    LET d == get_piece(g.board, m.dst)
        g2 == IF d # None THEN [g EXCEPT !.score = AddScore(g.score, g.turn, pts)]
              ELSE g
    IN  [g2 EXCEPT !.board = set_piece(g2.board, m.dst, get_piece(g2.board, m.src))]

\* the `if self.turn % 2 != self.get_zone(m.dst)` branch, start being the value
\* the clock is reset to and pts the points of the piece taken
Capture(g, m, start, pts) ==
    LET d == get_piece(g.board, m.dst)
        g1 == IF g.clock > 0 /\ d # None THEN [g EXCEPT !.clock = start] ELSE g
        g2 == IF d # None THEN [g1 EXCEPT !.score = AddScore(g1.score, g1.turn, pts)]
              ELSE g1
    IN  [g2 EXCEPT !.board = set_piece(g2.board, m.dst, get_piece(g2.board, m.src))]

\* mutant: the clock is restarted whatever it shows
start_clock_unguarded(g, start) == Ok([g EXCEPT !.clock = start])

\* the clock-start pseudo-move, the first `if` of move_piece
start_clock(g, start) ==
    IF g.clock > 0 THEN Err(<<"Clock already started">>, g)
    ELSE Ok([g EXCEPT !.clock = start])

\* mutant: the move is compared with the previous move, not with its reverse
IsUndo_same_direction(g, m) ==
    /\ g.prev_move # <<>>
    /\ m.src = g.prev_move[1].src
    /\ m.dst = g.prev_move[1].dst

IsUndo(g, m) ==
    /\ g.prev_move # <<>>
    /\ m.src = g.prev_move[1].dst
    /\ m.dst = g.prev_move[1].src

\* mutant: the source is cleared before the promotion is checked
own_zone_lib_vacates_first(g, m) ==
    LET g0 == [g EXCEPT !.board = set_piece(g.board, m.src, None)] IN
    IF get_piece(g.board, m.dst) = None
    THEN Ok(Finish([g EXCEPT !.board =
                      set_piece(g.board, m.dst, get_piece(g.board, m.src))], m))
    ELSE LET r == can_promote_lib(g, m) IN
         IF r.kind # "Ok" THEN [r EXCEPT !.val = g0]
         ELSE Ok(Finish([g EXCEPT !.board = set_piece(g.board, m.dst, r.val)], m))

\* the own-zone branch of lib.rs
own_zone_lib(g, m) ==
    IF get_piece(g.board, m.dst) = None
    THEN Ok(Finish([g EXCEPT !.board =
                      set_piece(g.board, m.dst, get_piece(g.board, m.src))], m))
    ELSE LET r == can_promote_lib(g, m) IN
         IF r.kind # "Ok" THEN [r EXCEPT !.val = g]
         ELSE Ok(Finish([g EXCEPT !.board = set_piece(g.board, m.dst, r.val)], m))

\* mutant: the undo rule is checked before the zone of control
move_piece_lib_undo_first(g, m) ==
    IF m.src.row = Sentinel THEN start_clock(g, ClockStartLib)
    ELSE LET src_piece == get_piece(g.board, m.src) IN
    IF src_piece = None THEN Err(<<"No piece at source position">>, g)
    ELSE IF IsUndo(g, m)
    THEN Err(<<"Cannot use your move to undo previous move">>, g)
    ELSE IF g.turn % 2 # get_zone(m.src)
    THEN Err(<<"Source Position is not in Player zone of control">>, g)
    ELSE IF m.src = m.dst
    THEN Err(<<"Must move piece to location different from starting location">>, g)
    ELSE LET v == validate_move_lib(src_piece, m.src, m.dst) IN
    IF v # "Ok" THEN Err(<<v>>, g)
    ELSE LET c == collision_check_lib(g.board, m) IN
    IF c.kind # "Ok" THEN [c EXCEPT !.val = g]
    ELSE IF g.turn % 2 # get_zone(m.dst)
    THEN Ok(Finish(Capture(g, m, ClockStartLib,
                           IF get_piece(g.board, m.dst) = None THEN 0
                           ELSE points(get_piece(g.board, m.dst))), m))
    ELSE own_zone_lib(g, m)

\* MartianChess::move_piece of lib.rs
move_piece_lib(g, m) ==
    IF m.src.row = Sentinel THEN start_clock(g, ClockStartLib)
    ELSE LET src_piece == get_piece(g.board, m.src) IN
    IF src_piece = None THEN Err(<<"No piece at source position">>, g)
    ELSE IF g.turn % 2 # get_zone(m.src)
    THEN Err(<<"Source Position is not in Player zone of control">>, g)
    ELSE IF m.src = m.dst
    THEN Err(<<"Must move piece to location different from starting location">>, g)
    ELSE IF IsUndo(g, m)
    THEN Err(<<"Cannot use your move to undo previous move">>, g)
    ELSE LET v == validate_move_lib(src_piece, m.src, m.dst) IN
    IF v # "Ok" THEN Err(<<v>>, g)
    ELSE LET c == collision_check_lib(g.board, m) IN
    IF c.kind # "Ok" THEN [c EXCEPT !.val = g]
    ELSE IF g.turn % 2 # get_zone(m.dst)
    THEN Ok(Finish(Capture(g, m, ClockStartLib,
                           IF get_piece(g.board, m.dst) = None THEN 0
                           ELSE points(get_piece(g.board, m.dst))), m))
    ELSE own_zone_lib(g, m)

\* the nested match of main.rs that writes the destination of an own-zone move
place_main(s, d) ==
    CASE s = Pawn ->
           (CASE d = Pawn -> Ok(Drone)
              [] d = Drone -> Ok(Queen)
              [] d = Queen -> Panic(<<"Tried to promote Piece::Queen">>, None)
              [] d = None -> Ok(Pawn))
      [] s = Drone ->
           (CASE d = Pawn -> Ok(Queen)
              [] d = Drone -> Panic(<<"Tried to promote Piece::Drone with Piece::Drone">>, None)
              [] d = Queen -> Panic(<<"Tried to promote Piece::Queen">>, None)
              [] d = None -> Ok(Drone))
      [] s = Queen ->
           (CASE d = None -> Ok(Queen)
              [] OTHER -> Panic(<<"Tried to promote Piece::Queen">>, None))
      [] s = None -> Ok(d)

\* the own-zone branch of main.rs
own_zone_main(g, m) ==
    LET r == can_promote_main(g, m) IN
    IF r.kind # "Ok" THEN [r EXCEPT !.val = g]
    ELSE LET w == place_main(get_piece(g.board, m.src), get_piece(g.board, m.dst)) IN
         IF w.kind # "Ok" THEN [w EXCEPT !.val = g]
         ELSE Ok(Finish([g EXCEPT !.board = set_piece(g.board, m.dst, w.val)], m))

\* mutant: main.rs checks the undo rule before the zone of control
move_piece_main_undo_first(g, m) ==
    IF m.src.row = Sentinel THEN start_clock(g, ClockStartMain)
    ELSE IF get_piece(g.board, m.src) = None
    THEN Err(<<"No piece at position", m.src>>, g)
    ELSE IF IsUndo(g, m)
    THEN Err(<<"Cannot use your move to undo previous move">>, g)
    ELSE IF g.turn % 2 # get_zone(m.src)
    THEN Err(<<"Position is not in Player zone of control", m.src, (g.turn % 2) + 1>>, g)
    ELSE IF m.src = m.dst
    THEN Err(<<"Must move piece to location different from starting location">>, g)
    ELSE LET v == validate_move_main(g.board, m) IN
    IF v # "Ok" THEN Err(<<v>>, g)
    ELSE LET c == collision_check_main(g.board, m) IN
    IF c.kind # "Ok" THEN [c EXCEPT !.val = g]
    ELSE IF g.turn % 2 # get_zone(m.dst)
    THEN Ok(Finish(Capture(g, m, ClockStartMain,
                           IF get_piece(g.board, m.dst) = None THEN 0
                           ELSE discriminant(get_piece(g.board, m.dst))), m))
    ELSE own_zone_main(g, m)

\* MartianChess::move_piece of main.rs
move_piece_main(g, m) ==
    IF m.src.row = Sentinel THEN start_clock(g, ClockStartMain)
    ELSE IF get_piece(g.board, m.src) = None
    THEN Err(<<"No piece at position", m.src>>, g)
    ELSE IF g.turn % 2 # get_zone(m.src)
    THEN Err(<<"Position is not in Player zone of control", m.src, (g.turn % 2) + 1>>, g)
    ELSE IF m.src = m.dst
    THEN Err(<<"Must move piece to location different from starting location">>, g)
    ELSE IF IsUndo(g, m)
    THEN Err(<<"Cannot use your move to undo previous move">>, g)
    ELSE LET v == validate_move_main(g.board, m) IN
    IF v # "Ok" THEN Err(<<v>>, g)
    ELSE LET c == collision_check_main(g.board, m) IN
    IF c.kind # "Ok" THEN [c EXCEPT !.val = g]
    ELSE IF g.turn % 2 # get_zone(m.dst)
    THEN Ok(Finish(Capture(g, m, ClockStartMain,
                           IF get_piece(g.board, m.dst) = None THEN 0
                           ELSE discriminant(get_piece(g.board, m.dst))), m))
    ELSE own_zone_main(g, m)

move_piece(v, g, m) == IF v = "lib" THEN move_piece_lib(g, m) ELSE move_piece_main(g, m)

----------------------------------------------------------------------------
(* The play loop *)

Game == [board |-> board, turn |-> turn, score |-> score,
         prev_move |-> prev_move, clock |-> clock]

\* mutant: the loop goes on when the clock has run out
can_play_ignores_clock(g) ==
    /\ Occupied(g.board, Zone0) # 0
    /\ Occupied(g.board, Zone1) # 0

\* MartianChess::can_play
can_play(g) ==
    /\ Occupied(g.board, Zone0) # 0
    /\ Occupied(g.board, Zone1) # 0
    /\ g.clock # 0

\* mutant: on equal scores the player to move next is announced
announce_player_to_move(g) ==
    IF g.score[1] > g.score[2] THEN 1
    ELSE IF g.score[1] < g.score[2] THEN 2
    ELSE IF g.turn % 2 = 0 THEN 1 ELSE 2

\* the announcement after the loop of play: 1 or 2
announce(g) ==
    IF g.score[1] > g.score[2] THEN 1
    ELSE IF g.score[1] < g.score[2] THEN 2
    ELSE IF g.turn % 2 = 0 THEN 2 ELSE 1

\* a line of stdin, by what the two regular expressions of get_move find in it
MoveLine(m) == [kind |-> "move", m |-> m]
ClkLine == [kind |-> "clk", m |-> ClockMove]
JunkLine == [kind |-> "junk", m |-> ClockMove]
Lines == {MoveLine(m) : m \in BoardMoves} \cup {ClkLine, JunkLine}

\* MartianChess::get_move: <<>> for None, <<m>> for Some(m)
get_move(g, line) ==
    IF g.clock = -1 /\ line.kind = "clk" THEN <<ClockMove>>
    ELSE IF line.kind = "move" THEN <<line.m>>
    ELSE <<>>

\* mutant: the loop never lowers the clock
tick_never(g) == g

\* the Ok arm of the match in play
tick(g) == IF g.clock > 0 THEN [g EXCEPT !.clock = g.clock - 1] ELSE g

\* one pass of the body of the loop of play on the line read
play_pass(v, g, line) ==
    LET mo == get_move(g, line) IN
    IF mo = <<>>
    THEN [kind |-> "None", err |-> <<"Failed to parse move">>, ret |-> g, val |-> g]
    ELSE LET r == move_piece(v, g, mo[1]) IN
         [kind |-> r.kind, err |-> r.err, ret |-> r.val,
          val |-> IF r.kind = "Ok" THEN tick(r.val) ELSE r.val]

----------------------------------------------------------------------------
(* Bounds: the lines stdin holds *)

\* after the scripted lines, at most MaxFree accepted lines are read, and the
\* first line that is not accepted is the last line of stdin
MaxFree == 2

\* the line "<column><row><column><row>", columns A-D as 0-3, rows as written
L(c1, r1, c2, r2) == MoveLine(Mv(Pos(r1 - 1, c1), Pos(r2 - 1, c2)))

\* lib: two queens leave zone 0, one queen is taken, then pawn C3 merges with drone B2
\* while queen B1 is still in zone 0
LibPromotion ==
    <<ClkLine, L(1, 3, 0, 4), L(2, 6, 3, 5), L(0, 2, 3, 5), L(3, 7, 1, 5),
      L(0, 4, 1, 5), L(3, 5, 2, 5), L(0, 1, 0, 2), L(1, 6, 0, 5),
      L(0, 2, 3, 5), L(0, 5, 1, 6), L(2, 3, 1, 2)>>

\* lib: two queens leave zone 0 and no queen is taken, so six queens remain
LibSixQueens ==
    <<L(1, 3, 0, 4), L(2, 6, 3, 5), L(0, 2, 3, 5), L(3, 5, 2, 5),
      L(0, 1, 0, 2), L(1, 6, 0, 5), L(0, 2, 3, 5), L(0, 5, 1, 6)>>

\* lib: the clock is started and pawns shuffle without a capture
LibRunDown ==
    <<ClkLine, L(1, 3, 0, 4), L(2, 6, 3, 5), L(0, 4, 1, 3), L(3, 5, 2, 6),
      L(1, 3, 0, 4), L(2, 6, 3, 5)>>

\* main: captures thin out the queens, then drone C1 merges with pawn C2
MainPromotion ==
    <<ClkLine, L(0, 3, 0, 5), L(3, 6, 3, 4), L(0, 2, 0, 5), L(0, 5, 0, 1),
      L(0, 1, 0, 6), L(0, 6, 3, 3), L(3, 4, 3, 5), L(3, 5, 3, 3),
      L(2, 1, 2, 2)>>

\* main: one queen is taken, then drone C1 merges with pawn C2 into the sixth queen
MainSixQueens ==
    <<L(0, 3, 0, 5), L(0, 5, 0, 4), L(0, 4, 0, 6), L(3, 6, 3, 4),
      L(0, 2, 0, 5), L(0, 5, 2, 3), L(0, 1, 0, 5), L(0, 5, 2, 3),
      L(2, 3, 2, 5), L(0, 6, 0, 4), L(2, 1, 2, 2)>>

\* main: the clock is started and pieces cross the canal without a capture
MainRunDown ==
    <<ClkLine, L(0, 3, 0, 5), L(0, 5, 0, 4), L(0, 4, 0, 6), L(3, 6, 3, 4),
      L(0, 2, 0, 5)>>

\* lib: every piece of zone 0 crosses the canal or is merged, until zone 0 is empty
LibEmptyZone ==
    <<L(0, 3, 0, 5), L(0, 5, 1, 5), L(0, 2, 0, 5), L(0, 5, 0, 1),
      L(0, 1, 0, 6), L(1, 5, 1, 3), L(2, 1, 2, 2), L(0, 6, 0, 5),
      L(1, 3, 1, 5), L(0, 5, 2, 3), L(2, 3, 2, 6), L(2, 6, 2, 2),
      L(2, 2, 2, 7), L(1, 5, 0, 5), L(1, 1, 2, 1), L(2, 7, 2, 1),
      L(2, 1, 2, 8), L(0, 5, 1, 5), L(1, 2, 2, 2), L(2, 8, 2, 2),
      L(2, 2, 2, 5)>>

\* main: captures across the canal by both players until zone 0 is empty
MainEmptyZone ==
    <<L(0, 3, 0, 5), L(3, 6, 3, 4), L(0, 2, 0, 5), L(0, 5, 0, 1),
      L(0, 1, 0, 6), L(3, 7, 3, 4), L(3, 4, 1, 6), L(1, 6, 1, 3),
      L(1, 3, 1, 7), L(1, 7, 1, 2), L(1, 2, 1, 8), L(1, 8, 1, 1),
      L(2, 1, 2, 2), L(0, 6, 0, 1), L(0, 1, 0, 5), L(0, 5, 2, 3),
      L(2, 3, 2, 6), L(2, 6, 2, 2), L(2, 2, 2, 7), L(2, 7, 2, 1),
      L(2, 1, 2, 8), L(2, 8, 2, 4), L(1, 1, 1, 5), L(1, 5, 2, 4),
      L(2, 4, 2, 5)>>

\* lib: two drones are taken, the clock is started and the last drone of zone 0
\* leaves it; pawns C2 and B3 stay side by side and the clock shows 1
LibNoDrones ==
    <<L(0, 3, 0, 5), L(0, 5, 0, 6), L(0, 2, 0, 6), L(0, 6, 0, 5),
      L(1, 2, 0, 2), L(0, 5, 0, 2), ClkLine, L(2, 1, 3, 1), L(1, 6, 0, 5),
      L(3, 1, 3, 3), L(0, 5, 1, 4), L(3, 3, 3, 5), L(3, 5, 1, 5)>>

Scripts(v) ==
    IF v = "lib"
    THEN {<< >>, LibPromotion, LibSixQueens, LibRunDown, LibEmptyZone,
          LibNoDrones}
    ELSE {<< >>, MainPromotion, MainSixQueens, MainRunDown, MainEmptyZone}

----------------------------------------------------------------------------
(* The state machine *)

Init ==
    /\ variant \in {"lib", "main"}
    /\ board = new(variant).board
    /\ turn = new(variant).turn
    /\ score = new(variant).score
    /\ prev_move = new(variant).prev_move
    /\ clock = new(variant).clock
    /\ pc = "play"
    /\ winner = 0
    /\ input \in Scripts(variant)
    /\ free = MaxFree
    /\ pre = new(variant)
    /\ last = [line |-> JunkLine, kind |-> "Start", err |-> <<>>, ret |-> -1]

Apply(line, rest, accepted, rejected) ==
    \E p \in {play_pass(variant, Game, line)} :
    /\ board' = p.val.board
    /\ turn' = p.val.turn
    /\ score' = p.val.score
    /\ prev_move' = p.val.prev_move
    /\ clock' = p.val.clock
    /\ pc' = IF p.kind = "Panic" THEN "panicked" ELSE pc
    /\ pre' = Game
    /\ last' = [line |-> line, kind |-> p.kind, err |-> p.err, ret |-> p.ret.clock]
    /\ input' = rest
    /\ free' = IF p.kind = "Ok" THEN accepted ELSE rejected
    /\ UNCHANGED <<variant, winner>>

\* a pass of the loop on the next scripted line
PlayScripted ==
    /\ pc = "play"
    /\ can_play(Game)
    /\ input # << >>
    /\ Apply(Head(input), Tail(input), free, free)

\* a pass of the loop on any line
PlayFree ==
    /\ pc = "play"
    /\ can_play(Game)
    /\ input = << >>
    /\ free > 0
    /\ \E line \in Lines : Apply(line, << >>, free - 1, 0)

\* the loop is left: the scores and the winner are printed
GameOver ==
    /\ pc = "play"
    /\ ~can_play(Game)
    /\ pc' = "over"
    /\ winner' = announce(Game)
    /\ UNCHANGED <<variant, board, turn, score, prev_move, clock, input, free, pre, last>>

Next == PlayScripted \/ PlayFree \/ GameOver

Spec == Init /\ [][Next]_vars

----------------------------------------------------------------------------
(* Shape validation alone: validate_move on every piece and every pair of
   distinct positions of the board *)

\* a board with the one piece p on src, and the move src -> dst read
InitShape ==
    /\ variant \in {"lib", "main"}
    /\ \E p \in Piece, m \in BoardMoves :
         /\ m.src # m.dst
         /\ board = set_piece(EmptyBoard, m.src, p)
         /\ pre = [new(variant) EXCEPT !.board = set_piece(EmptyBoard, m.src, p)]
         /\ last = [line |-> MoveLine(m), kind |-> "Start", err |-> <<>>, ret |-> -1]
    /\ turn = 0
    /\ score = new(variant).score
    /\ prev_move = <<>>
    /\ clock = -1
    /\ pc = "shape"
    /\ winner = 0
    /\ input = << >>
    /\ free = 0

\* the call of validate_move in move_piece, its result kept in last
ValidateShape ==
    /\ pc = "shape"
    /\ \E r \in {IF variant = "lib"
                 THEN validate_move_lib(get_piece(board, last.line.m.src),
                                        last.line.m.src, last.line.m.dst)
                 ELSE validate_move_main(board, last.line.m)} :
         last' = [last EXCEPT !.kind = IF r = "Ok" THEN "Ok" ELSE "Err",
                              !.err = <<r>>]
    /\ pc' = "checked"
    /\ UNCHANGED <<variant, board, turn, score, prev_move, clock, winner,
                   input, free, pre>>

\* the call of collision_check that follows an accepted shape, its result
\* kept in last
CollisionShape ==
    /\ pc = "checked"
    /\ last.kind = "Ok"
    /\ \E c \in {IF variant = "lib" THEN collision_check_lib(board, last.line.m)
                 ELSE collision_check_main(board, last.line.m)} :
         last' = [last EXCEPT !.kind = c.kind, !.err = c.err]
    /\ pc' = "walked"
    /\ UNCHANGED <<variant, board, turn, score, prev_move, clock, winner,
                   input, free, pre>>

NextShape == ValidateShape \/ CollisionShape

SpecShape == InitShape /\ [][NextShape]_vars

----------------------------------------------------------------------------
(* The game once the clock runs: the loop of play after an accepted "clk",
   stdin holding from then on only lines of LiveLines, of which the model
   follows those that are accepted (a rejected line changes nothing) *)

\* the loop of play is stopped after MaxTurn accepted board moves
MaxTurn == 40

\* lib: pawns stepping to and fro, two steps towards the canal, a drone
\* crossing it, and pawns taking each other on C4 and D5
LibLiveLines ==
    {L(1, 3, 0, 4), L(0, 4, 1, 3), L(2, 6, 3, 5), L(3, 5, 2, 6),
     L(1, 3, 2, 4), L(2, 4, 3, 5), L(3, 5, 2, 4), L(0, 3, 0, 5),
     L(2, 3, 1, 4), L(1, 6, 0, 5), L(0, 2, 0, 5), L(1, 4, 0, 5)}

\* main: drones and queens crossing the canal and taking pieces, and the
\* merging of drone C1 with pawn C2
MainLiveLines ==
    {L(0, 3, 0, 5), L(3, 6, 3, 4), L(0, 2, 0, 5), L(0, 5, 0, 1),
     L(0, 1, 0, 6), L(0, 6, 3, 3), L(3, 4, 3, 5), L(3, 5, 3, 3),
     L(2, 1, 2, 2), L(0, 5, 0, 4), L(0, 4, 0, 6)}

LiveLines(v) == IF v = "lib" THEN LibLiveLines ELSE MainLiveLines

\* the state in which the loop is after the line "clk" was read first
InitClock ==
    /\ variant \in {"lib", "main"}
    /\ \E p \in {play_pass(variant, new(variant), ClkLine)} :
         /\ board = p.val.board
         /\ turn = p.val.turn
         /\ score = p.val.score
         /\ prev_move = p.val.prev_move
         /\ clock = p.val.clock
         /\ last = [line |-> ClkLine, kind |-> p.kind, err |-> p.err,
                    ret |-> p.ret.clock]
    /\ pc = "live"
    /\ winner = 0
    /\ input = << >>
    /\ free = 0
    /\ pre = new(variant)

\* a pass of the loop on a line of LiveLines that move_piece accepts
PlayAccepted ==
    /\ pc = "live"
    /\ can_play(Game)
    /\ turn < MaxTurn
    /\ \E line \in LiveLines(variant) :
         /\ play_pass(variant, Game, line).kind = "Ok"
         /\ Apply(line, << >>, 0, 0)

\* the loop is left
GameOverLive ==
    /\ pc = "live"
    /\ ~can_play(Game)
    /\ pc' = "over"
    /\ winner' = announce(Game)
    /\ UNCHANGED <<variant, board, turn, score, prev_move, clock, input, free, pre, last>>

NextClock == PlayAccepted \/ GameOverLive

\* the loop goes on as long as can_play holds, and stdin keeps supplying a
\* line that is accepted as long as there is one
SpecClock ==
    /\ InitClock
    /\ [][NextClock]_vars
    /\ WF_vars(PlayAccepted)
    /\ WF_vars(GameOverLive)

----------------------------------------------------------------------------
(* What the last pass of the loop did *)

Accepted == last.kind = "Ok"
Rejected == last.kind = "Err"
AcceptedBoardMove == last.kind = "Ok" /\ last.line.kind = "move"
AcceptedClockStart == last.kind = "Ok" /\ last.line.kind = "clk"
Src == last.line.m.src
Dst == last.line.m.dst
Mover == pre.turn % 2
SrcBefore == get_piece(pre.board, Src)
DstBefore == get_piece(pre.board, Dst)
AcceptedCapture ==
    AcceptedBoardMove /\ get_zone(Dst) # Mover /\ DstBefore # None
AcceptedPromotion ==
    AcceptedBoardMove /\ get_zone(Dst) = Mover /\ DstBefore # None
ClockStart == IF variant = "lib" THEN ClockStartLib ELSE ClockStartMain
UndoError == <<"Cannot use your move to undo previous move">>
ZoneErrors ==
    {"Source Position is not in Player zone of control",
     "Position is not in Player zone of control"}
PromotionErrors ==
    {"Cannot promote Queen.", "Cannot promote Drone with a Drone",
     "Cannot have more than 6 of one piece on the board",
     "Cannot promote if piece type already in your zone",
     "Cannot promote queen", "Tried to promote Drone with Drone",
     "Cannot have more than 6 on the board",
     "Cannot promote if a piece is in your zone"}
promotion(v, a, b) == IF v = "lib" THEN promote(a, b) ELSE new_piece_main(a, b)
Reverse(m) == Mv(m.dst, m.src)

Min(a, b) == IF a <= b THEN a ELSE b
Max(a, b) == IF a >= b THEN a ELSE b
\* the shapes the rules allow, from the differences of rows and columns
ShapeOk(p, s, d) ==
    LET dr == Abs(d.row - s.row)
        dc == Abs(d.col - s.col)
    IN  CASE p = Pawn -> dr = 1 /\ dc = 1
          [] p = Drone -> \/ dr = 0 /\ dc \in {1, 2}
                          \/ dc = 0 /\ dr \in {1, 2}
          [] p = Queen -> dr = 0 \/ dc = 0 \/ dr = dc
          [] OTHER -> FALSE
\* the cells strictly between s and d on the segment that joins them
Between(s, d) ==
    {c \in [row : Min(s.row, d.row) .. Max(s.row, d.row),
            col : Min(s.col, d.col) .. Max(s.col, d.col)] :
       /\ c # s /\ c # d
       /\ (c.row - s.row) * (d.col - s.col) = (c.col - s.col) * (d.row - s.row)
       /\ (c.row - s.row) * (c.row - d.row) <= 0
       /\ (c.col - s.col) * (c.col - d.col) <= 0}
PathClear(b, s, d) == \A c \in Between(s, d) : get_piece(b, c) = None
BoardLine == last.line.kind = "move"

----------------------------------------------------------------------------
(* Claims *)

\* C1: when move_piece returns an error, board, turn, score, prev_move and
\* clock are what they were before the call, and the same move submitted
\* again returns the same error; this for the line just read and for the
\* clock-start sentinel submitted in the present state.
C1_RejectionChangesNothing ==
    /\ Rejected =>
         /\ Game = pre
         /\ LET again == move_piece(variant, Game, last.line.m)
            IN  again.kind = "Err" /\ again.err = last.err /\ again.val = Game
    /\ LET c == move_piece(variant, Game, ClockMove)
       IN  c.kind = "Err" =>
             /\ c.val = Game
             /\ move_piece(variant, c.val, ClockMove).err = c.err

\* C1 witness: a promotion has just been rejected.
C1_Witness ==
    /\ Rejected
    /\ last.line.kind = "move"
    /\ last.err[1] \in PromotionErrors
    /\ Game = pre

\* C2: move_piece never aborts the process, whatever on-board move or
\* sentinel it is given.
C2_NeverAborts == pc # "panicked"

\* C3: after an accepted board move the source cell is empty and the
\* destination holds the piece that stood on the source or the promoted rank
\* computed from the source and destination pieces.
C3_SourceVacated ==
    AcceptedBoardMove =>
      /\ get_piece(board, Src) = None
      /\ get_piece(board, Dst) # None
      /\ \/ get_piece(board, Dst) = SrcBefore
         \/ /\ DstBefore # None
            /\ promotion(variant, SrcBefore, DstBefore).kind = "Ok"
            /\ get_piece(board, Dst) = promotion(variant, SrcBefore, DstBefore).val

\* C3 witness: an accepted promotion left another rank on the destination.
C3_Witness ==
    /\ AcceptedPromotion
    /\ get_piece(board, Dst) # SrcBefore
    /\ get_piece(board, Src) = None

\* C4: no rank ever has more than 6 pieces on the whole board.
C4_AtMostSixOfARank == \A p \in Piece : CountIn(board, Cells, p) <= 6

\* C4 witness: an accepted promotion has made the sixth piece of its rank.
C4_Witness ==
    /\ AcceptedPromotion
    /\ CountIn(board, Cells, get_piece(board, Dst)) = 6
    /\ CountIn(pre.board, Cells, get_piece(board, Dst)) = 5

\* C5: right after an accepted promotion the mover's zone holds at most one
\* piece of the resulting rank.
C5_OneOfRankInZone ==
    AcceptedPromotion =>
      CountIn(board, ZoneCells(Mover), get_piece(board, Dst)) <= 1

\* C6: the promotion function gives Low+Low -> Mid, Low+Mid -> High,
\* Mid+Low -> High, an error for Mid+Mid and for any pair with High, and the
\* same result with its arguments swapped.
C6_PromotionTable ==
    \A a, b \in Piece :
      LET r == promotion(variant, a, b) IN
      /\ (a = Pawn /\ b = Pawn) => (r.kind = "Ok" /\ r.val = Drone)
      /\ ({a, b} = {Pawn, Drone}) => (r.kind = "Ok" /\ r.val = Queen)
      /\ (a = Queen \/ b = Queen) => r.kind = "Err"
      /\ (a = Drone /\ b = Drone) => r.kind = "Err"
      /\ r.kind = promotion(variant, b, a).kind
      /\ r.val = promotion(variant, b, a).val

\* C7 as stated: the reverse of the last accepted move is rejected with the
\* undo error, whether or not it passes the zone-of-control check.
C7_UndoWhateverTheZone ==
    prev_move # << >> =>
      LET r == move_piece(variant, Game, Reverse(prev_move[1]))
      IN  r.kind = "Err" /\ r.err = UndoError

\* C7 amended: the reverse of the last accepted move is always rejected; with
\* the undo error when its source (the last destination) is in the zone of
\* the player to move, and with the zone-of-control error otherwise; the undo
\* error is returned only for the reverse of an earlier accepted move.
C7_UndoAfterZoneCheck ==
    /\ prev_move # << >> =>
         LET r == move_piece(variant, Game, Reverse(prev_move[1]))
         IN  /\ r.kind = "Err"
             /\ r.val = Game
             /\ IF get_zone(prev_move[1].dst) = turn % 2
                THEN r.err = UndoError
                ELSE r.err[1] \in ZoneErrors
    /\ (Rejected /\ last.err = UndoError) =>
         /\ pre.prev_move # << >>
         /\ last.line.m = Reverse(pre.prev_move[1])

\* C7 witness: the undo error has just been returned for the reverse of the
\* last accepted move.
C7_Witness ==
    /\ Rejected
    /\ last.err = UndoError
    /\ prev_move # << >>
    /\ last.line.m = Reverse(prev_move[1])

C9_NoTickOnClockStart ==
    /\ AcceptedBoardMove =>
         /\ clock = IF last.ret > 0 THEN last.ret - 1 ELSE last.ret
         /\ last.ret >= 0 => clock >= 0
    /\ AcceptedClockStart => clock = ClockStart

\* C10: an accepted move onto an occupied cell of the opponent's zone adds the
\* value of the piece taken (Low 1, Mid 2, High 3) to the mover's score and
\* leaves the other score; every other accepted move leaves both scores.
C10_CaptureScores ==
    AcceptedBoardMove =>
      LET me == Mover + 1
          other == 2 - Mover
          value == CASE DstBefore = Pawn -> 1
                     [] DstBefore = Drone -> 2
                     [] DstBefore = Queen -> 3
                     [] OTHER -> 0
      IN  /\ score[other] = pre.score[other]
          /\ score[me] = pre.score[me] +
               (IF get_zone(Dst) # Mover THEN value ELSE 0)

\* C10 witness: player 2 has just taken a piece worth more than 1.
C10_Witness ==
    /\ AcceptedCapture
    /\ Mover = 1
    /\ score[2] >= pre.score[2] + 2

\* C11: an accepted capture made while clock > 0 leaves move_piece with the
\* clock at the variant's starting value, which the loop then lowers by 1; an
\* accepted capture made while clock = -1 leaves the clock at -1; an accepted
\* board move that captures nothing leaves move_piece with the clock it found
\* and never ends with a higher clock.
C11_CaptureResetsClock ==
    /\ (AcceptedCapture /\ pre.clock > 0) =>
         /\ last.ret = ClockStart
         /\ clock = ClockStart - 1
    /\ (AcceptedCapture /\ pre.clock = -1) =>
         /\ last.ret = -1
         /\ clock = -1
    /\ (AcceptedBoardMove /\ ~AcceptedCapture) =>
         /\ last.ret = pre.clock
         /\ clock <= pre.clock

\* C11 witness: a capture has just put a clock that had run down by more than
\* one move back to one less than the starting value.
C11_Witness ==
    /\ AcceptedCapture
    /\ pre.clock > 0
    /\ pre.clock < ClockStart - 1
    /\ clock = ClockStart - 1

\* the condition C12 names, read off the cells: rows 0-3 hold no piece, or
\* rows 4-7 hold no piece, or the clock shows 0
GameIsOver(g) ==
    \/ \A c \in Position : c.row <= 3 => get_piece(g.board, c) = None
    \/ \A c \in Position : c.row >= 4 => get_piece(g.board, c) = None
    \/ g.clock = 0

\* C12: the loop offers a move exactly while neither zone is empty and the
\* clock is not 0; every line read was read in such a state; the loop is left
\* only in a state where one of the three holds; and from the moment one of
\* them holds, board, turn, score, prev_move and clock never change again.
C12_GameOver ==
    /\ [](/\ can_play(Game) <=> ~GameIsOver(Game)
          /\ last.kind # "Start" => ~GameIsOver(pre)
          /\ pc = "over" => GameIsOver(Game))
    /\ [][GameIsOver(Game) => Game' = Game]_vars

\* C12 witness: the loop was left because zone 0 is empty while the clock was
\* never started.
C12_Witness ==
    /\ pc = "over"
    /\ clock = -1
    /\ \A c \in Position : c.row <= 3 => get_piece(board, c) = None
    /\ \E c \in Position : get_piece(board, c) # None

\* C12 witness, second case: the loop was left because the clock reached 0.
C12_WitnessClock ==
    /\ pc = "over"
    /\ clock = 0
    /\ AcceptedBoardMove
    /\ pre.clock = 1

\* the player (1 or 2) who made the most recent accepted board move: the one
\* whose zone its source lies in
LastMover == get_zone(prev_move[1].src) + 1

\* C13 as stated: when the loop is left the player with the strictly higher
\* score is announced, and on equal scores the player who did not make the
\* most recent accepted board move.
C13_TieToTheOtherPlayer ==
    (pc = "over" /\ prev_move # << >>) =>
      winner = IF score[1] > score[2] THEN 1
               ELSE IF score[2] > score[1] THEN 2
               ELSE 3 - LastMover

\* C13 amended: when the loop is left the player with the strictly higher
\* score is announced, and on equal scores the player who made the most
\* recent accepted board move; the loop is never left before a board move
\* was accepted.
C13_TieToTheLastMover ==
    pc = "over" =>
      /\ prev_move # << >>
      /\ winner = IF score[1] > score[2] THEN 1
                  ELSE IF score[2] > score[1] THEN 2
                  ELSE LastMover

\* C13 witness: the loop was left on equal scores and the player who moved
\* last was announced.
C13_Witness ==
    /\ pc = "over"
    /\ score[1] = score[2]
    /\ prev_move # << >>
    /\ winner = LastMover

\* C13 witness, second case: the loop was left with player 1 strictly ahead.
C13_WitnessAhead == pc = "over" /\ score[1] > score[2] /\ winner = 1

\* C14: a board move of the player to move from an occupied cell of their
\* zone to an empty cell of their zone, of a shape the piece allows, over a
\* clear path and not the reverse of the previous move, is accepted: the
\* piece stands on the destination unchanged, the source is empty, no other
\* cell changes, both scores are unchanged and turn is one more.
C14_OwnZoneMoveAccepted ==
    ( /\ BoardLine
      /\ SrcBefore # None
      /\ get_zone(Src) = Mover
      /\ get_zone(Dst) = Mover
      /\ DstBefore = None
      /\ ShapeOk(SrcBefore, Src, Dst)
      /\ PathClear(pre.board, Src, Dst)
      /\ pre.prev_move # <<Reverse(last.line.m)>> )
    => /\ Accepted
       /\ get_piece(board, Dst) = SrcBefore
       /\ get_piece(board, Src) = None
       /\ \A c \in Position \ {Src, Dst} :
            get_piece(board, c) = get_piece(pre.board, c)
       /\ score = pre.score
       /\ turn = pre.turn + 1

\* C15: when the player to move moves a Low piece one diagonal step onto a
\* Low piece in their own zone while fewer than 6 Mid pieces are on the board
\* and none is in their zone, the move is accepted, the destination holds a
\* Mid piece, the source is empty, turn is one more, and the same move
\* submitted again at once is rejected.
C15_PawnOnPawnMakesDrone ==
    ( /\ BoardLine
      /\ SrcBefore = Pawn
      /\ DstBefore = Pawn
      /\ get_zone(Src) = Mover
      /\ get_zone(Dst) = Mover
      /\ ShapeOk(Pawn, Src, Dst)
      /\ CountIn(pre.board, Cells, Drone) < 6
      /\ CountIn(pre.board, ZoneCells(Mover), Drone) = 0 )
    => /\ Accepted
       /\ get_piece(board, Dst) = Drone
       /\ get_piece(board, Src) = None
       /\ turn = pre.turn + 1
       /\ move_piece(variant, Game, last.line.m).kind = "Err"

\* the number of occupied cells of a board
Pieces(b) == Cardinality({i \in Cells : b[i] # None})

\* C16: a pass of the loop never raises the number of pieces on the board: a
\* line that is rejected, unreadable or a clock-start leaves it, an accepted
\* move onto an empty cell leaves it, and an accepted move onto an occupied
\* cell (a capture or a promotion) lowers it by exactly 1; so it never exceeds
\* the 18 pieces of the start.
C16_PieceCountNeverGrows ==
    \A before \in {Pieces(pre.board)}, after \in {Pieces(board)} :
      /\ after <= before
      /\ after <= 18
      /\ ~AcceptedBoardMove => after = before
      /\ (AcceptedBoardMove /\ DstBefore = None) => after = before
      /\ (AcceptedCapture \/ AcceptedPromotion) => after = before - 1

\* C16 witness: an accepted promotion has just lowered the count by 1, after
\* captures had lowered it before.
C16_Witness ==
    /\ AcceptedPromotion
    /\ Pieces(pre.board) < 18
    /\ Pieces(board) = Pieces(pre.board) - 1

\* the first rule, in the order C17 gives, that the board line just read
\* broke in the state it was read in; "none" when it broke none of the six
FirstFailed ==
    IF SrcBefore = None THEN "source"
    ELSE IF get_zone(Src) # Mover THEN "zone"
    ELSE IF Src = Dst THEN "same"
    ELSE IF pre.prev_move = <<Reverse(last.line.m)>> THEN "undo"
    ELSE IF ~ShapeOk(SrcBefore, Src, Dst) THEN "shape"
    ELSE IF ~PathClear(pre.board, Src, Dst) THEN "path"
    ELSE "none"

\* the rule an error message of move_piece speaks of
ErrorClass(err) ==
    IF err[1] \in {"No piece at source position", "No piece at position"}
    THEN "source"
    ELSE IF err[1] \in ZoneErrors THEN "zone"
    ELSE IF err[1] = "Must move piece to location different from starting location"
    THEN "same"
    ELSE IF err = UndoError THEN "undo"
    ELSE IF err[1] \in {"Pawns must move exactly one square diagonally",
                        "Drones may move only 1 or 2 squares orthogonally",
                        "Drones may move only 1 or 2 squares orthogonally 1",
                        "Queens may only move along a straight line"}
    THEN "shape"
    ELSE IF err[1] = "Move blocked by" THEN "path"
    ELSE IF err[1] = "Clock already started" THEN "clock"
    ELSE "promotion"

\* C17: a board move that breaks one of the rules - source occupied, source in
\* the zone of the player to move, source differs from destination, not the
\* reverse of the previous move, shape allowed for the rank, path clear - is
\* rejected with the error of the first rule it breaks in this order; the
\* promotion checks come last: their error is returned only for a move into
\* the mover's own zone that breaks none of the six.
C17_FirstViolatedCheck ==
    BoardLine =>
      \A first \in {FirstFailed} :
        /\ first # "none" =>
             /\ Rejected
             /\ ErrorClass(last.err) = first
        /\ Rejected =>
             /\ ErrorClass(last.err) # "clock"
             /\ ErrorClass(last.err) = "promotion" =>
                  /\ first = "none"
                  /\ get_zone(Dst) = Mover
             /\ ErrorClass(last.err) # "promotion" =>
                  ErrorClass(last.err) = first

\* C17 witness: a move that breaks both the zone rule and the undo rule has
\* been rejected with the zone error.
C17_Witness ==
    /\ BoardLine
    /\ Rejected
    /\ ErrorClass(last.err) = "zone"
    /\ SrcBefore # None
    /\ pre.prev_move = <<Reverse(last.line.m)>>

\* C17 witness, second case: a move of a wrong shape whose path is also
\* blocked has been rejected with the shape error.
C17_WitnessShape ==
    /\ BoardLine
    /\ Rejected
    /\ ErrorClass(last.err) = "shape"
    /\ ~PathClear(pre.board, Src, Dst)

\* C18: for every rank and every pair of distinct positions of the board,
\* shape validation accepts exactly: Low, one step on a diagonal; Mid, 1 or 2
\* squares along a row or a column (3 squares are rejected); High, any
\* distance along a row, a column or a diagonal; and the validators of the
\* two variants accept the same moves.
C18_ShapeValidation ==
    pc = "checked" =>
      /\ Accepted <=> ShapeOk(SrcBefore, Src, Dst)
      /\ (SrcBefore = Drone /\ Abs(Dst.row - Src.row) + Abs(Dst.col - Src.col) = 3)
           => Rejected
      /\ (validate_move_lib(SrcBefore, Src, Dst) = "Ok")
           <=> (validate_move_main(board, last.line.m) = "Ok")

\* C18 witness: a Mid move of 3 squares along a column has been rejected.
C18_Witness ==
    /\ pc = "checked"
    /\ SrcBefore = Drone
    /\ Src.col = Dst.col
    /\ Abs(Dst.row - Src.row) = 3
    /\ Rejected

collision_check(v, b, m) ==
    IF v = "lib" THEN collision_check_lib(b, m) ELSE collision_check_main(b, m)

\* C19: for a board move of a shape its piece allows, the path check fails if
\* and only if a cell strictly between source and destination is occupied,
\* whatever stands on the source and on the destination, and it never aborts;
\* a move is rejected as blocked only when such a cell is occupied, and
\* before every accepted move all cells strictly between were empty.
C19_BlockedIffCellBetween ==
    BoardLine =>
      \A clear \in {PathClear(pre.board, Src, Dst)} :
        /\ (SrcBefore # None /\ ShapeOk(SrcBefore, Src, Dst)) =>
             \A c \in {collision_check(variant, pre.board, last.line.m)} :
               /\ c.kind \in {"Ok", "Err"}
               /\ (c.kind = "Err") <=> ~clear
               /\ (get_zone(Src) = Mover /\ pre.prev_move # <<Reverse(last.line.m)>>)
                    => ((c.kind = "Err") <=>
                          (Rejected /\ ErrorClass(last.err) = "path"))
        /\ (Rejected /\ ErrorClass(last.err) = "path") =>
             /\ ShapeOk(SrcBefore, Src, Dst)
             /\ ~clear
        /\ Accepted => clear

\* C19 witness: a piece has just been taken at the end of a path of at least
\* one cell, all of them empty.
C19_Witness ==
    /\ AcceptedCapture
    /\ Between(Src, Dst) # {}
    /\ PathClear(pre.board, Src, Dst)

\* C19 witness, second case: a move of an allowed shape has been rejected as
\* blocked by a piece strictly between its ends, its destination being empty.
C19_WitnessBlocked ==
    /\ BoardLine
    /\ Rejected
    /\ ErrorClass(last.err) = "path"
    /\ DstBefore = None
    /\ \E x \in Between(Src, Dst) : get_piece(pre.board, x) # None

\* C20: an accepted board move has its source in the zone of the player to
\* move (rows 0-3 when turn is even, rows 4-7 when it is odd), raises turn by
\* exactly 1 and is recorded as prev_move, so two accepted board moves in a
\* row are made from different zones and the last mover is never the player
\* to move; every other line (rejected, unreadable, clock-start) leaves turn
\* and prev_move as they were.
C20_TurnsAlternate ==
    /\ AcceptedBoardMove =>
         /\ (Src.row <= 3) <=> (pre.turn % 2 = 0)
         /\ (Src.row >= 4) <=> (pre.turn % 2 = 1)
         /\ turn = pre.turn + 1
         /\ prev_move = <<last.line.m>>
         /\ pre.prev_move # << >> =>
              ((pre.prev_move[1].src.row <= 3) <=> (Src.row >= 4))
    /\ ~AcceptedBoardMove =>
         /\ turn = pre.turn
         /\ prev_move = pre.prev_move
    /\ prev_move # << >> =>
         ((prev_move[1].src.row <= 3) <=> (turn % 2 = 1))
    /\ prev_move = << >> <=> turn = 0

\* C20 witness: player 2 has just moved right after a move of player 1.
C20_Witness ==
    /\ AcceptedBoardMove
    /\ Src.row >= 4
    /\ pre.prev_move # << >>
    /\ pre.prev_move[1].src.row <= 3
    /\ turn = pre.turn + 1
    /\ turn >= 2

\* C20 witness, second case: a rejected line left the same player to move.
C20_WitnessRejected ==
    /\ Rejected
    /\ BoardLine
    /\ turn = pre.turn
    /\ turn >= 1
    /\ prev_move = pre.prev_move

\* the point value of what stands on a cell: Low 1, Mid 2, High 3, empty 0
Value(p) ==
    CASE p = Pawn -> 1 [] p = Drone -> 2 [] p = Queen -> 3 [] OTHER -> 0

\* the sum of the point values of the pieces of a board
BoardValue(b) ==
    Cardinality({i \in Cells : b[i] = Pawn})
      + 2 * Cardinality({i \in Cells : b[i] = Drone})
      + 3 * Cardinality({i \in Cells : b[i] = Queen})

\* C21: in every state the two scores and the point values of the pieces on
\* the board add up to 36, so each score stays within 0..36 and within a u8;
\* after an accepted promotion the destination holds a piece worth the sum
\* of the piece moved and the piece it was moved onto.
C21_PointsConserved ==
    /\ score[1] + score[2] + BoardValue(board) = 36
    /\ score[1] \in 0 .. 36
    /\ score[2] \in 0 .. 36
    /\ AcceptedPromotion =>
         Value(get_piece(board, Dst)) = Value(SrcBefore) + Value(DstBefore)

\* C21 witness: a promotion has just been accepted after both players had
\* taken pieces.
C21_Witness ==
    /\ AcceptedPromotion
    /\ score[1] > 0
    /\ score[2] > 0
    /\ Value(get_piece(board, Dst)) = Value(SrcBefore) + Value(DstBefore)

\* what C22 says of a game g in which the move m gets the undo error: the
\* previous accepted move went from the other player's zone into the zone of
\* the player to move, and m breaks no other rule
OnlyAnUndo(g, m) ==
    /\ g.prev_move # << >>
    /\ m = Reverse(g.prev_move[1])
    /\ (g.prev_move[1].src.row <= 3) <=> (g.turn % 2 = 1)
    /\ (g.prev_move[1].dst.row <= 3) <=> (g.turn % 2 = 0)
    /\ get_piece(g.board, m.src) # None
    /\ (m.src.row <= 3) <=> (g.turn % 2 = 0)
    /\ get_piece(g.board, m.dst) = None
    /\ ShapeOk(get_piece(g.board, m.src), m.src, m.dst)
    /\ PathClear(g.board, m.src, m.dst)

\* C22: whenever a line is rejected with the undo error, and whenever the
\* reverse of the previous move would be in the present state, the previous
\* accepted move crossed from the other player's zone into the zone of the
\* player to move and the rejected move is otherwise legal (source occupied
\* and in the active zone, destination empty, shape valid, path clear); and
\* whenever prev_move is set its destination is occupied and its source empty.
C22_UndoOnlyAfterCrossing ==
    /\ (Rejected /\ last.err = UndoError) => OnlyAnUndo(pre, last.line.m)
    /\ prev_move # << >> =>
         /\ get_piece(board, prev_move[1].dst) # None
         /\ get_piece(board, prev_move[1].src) = None
         /\ \A r \in {move_piece(variant, Game, Reverse(prev_move[1]))} :
              r.err = UndoError => OnlyAnUndo(Game, Reverse(prev_move[1]))

\* C22 witness: the undo error has just been returned for a move back across
\* the canal over at least one empty cell.
C22_Witness ==
    /\ Rejected
    /\ last.err = UndoError
    /\ OnlyAnUndo(pre, last.line.m)
    /\ Between(Src, Dst) # {}

\* what is left of the game once the clock runs: every accepted board move
\* lowers it, a capture through the piece count and any other through the clock
Remaining(g) ==
    Pieces(g.board) * (ClockStart + 1) + g.clock

\* no line of LiveLines would be accepted in the present state
NoLiveMove ==
    \A line \in LiveLines(variant) : play_pass(variant, Game, line).kind # "Ok"

\* C23: once started the clock never shows -1 again and stays within
\* 0..starting value, inside move_piece and after the pass (where it is at
\* most the starting value minus 1); an accepted board move that captures
\* nothing lowers it by exactly 1, so at most starting-value-minus-1 such
\* moves follow one another; every accepted board move lowers
\* pieces * (starting value + 1) + clock; and while lines keep being accepted
\* the loop is left after finitely many of them.
C23_ClockRunsOut ==
    /\ [](/\ clock \in 0 .. (ClockStart - 1)
          /\ last.ret \in 0 .. ClockStart
          /\ (AcceptedBoardMove /\ ~AcceptedCapture) => clock = pre.clock - 1
          /\ AcceptedBoardMove => Remaining(Game) < Remaining(pre))
    /\ [][clock # -1 => clock' # -1]_vars
    /\ [][turn' # turn => turn' - turn = 1 /\ Remaining(Game)' < Remaining(Game)]_vars
    /\ (pc = "live" /\ clock > 0) ~> (pc = "over" \/ NoLiveMove)

\* C23 witness: the loop was left with the clock at 0 after more accepted
\* moves than the clock counts, a capture having restarted it on the way.
C23_Witness ==
    /\ pc = "over"
    /\ clock = 0
    /\ turn > ClockStart
    /\ score[1] + score[2] > 0

\* the cells collision_check reads for the move of the line just read
CellsRead ==
    WalkCells(board, FirstStep(last.line.m), Dst,
              signum(Dst.row - Src.row), signum(Dst.col - Src.col))

\* C24: for every rank and every move between distinct cells of the board
\* that passes shape validation, collision_check returns without aborting,
\* after reading at most 6 cells, each of them a cell of the 8x4 board and
\* strictly between source and destination: one cell per step, none skipped
\* and none beyond the destination.
C24_WalkStaysOnBoard ==
    pc = "walked" =>
      /\ ShapeOk(SrcBefore, Src, Dst)
      /\ last.kind = "Ok"
      /\ \A cells \in {CellsRead} :
           /\ Len(cells) <= 6
           /\ Len(cells) = Max(Abs(Dst.row - Src.row), Abs(Dst.col - Src.col)) - 1
           /\ \A i \in 1 .. Len(cells) : cells[i] \in Position
           /\ {cells[i] : i \in 1 .. Len(cells)} = Between(Src, Dst)
           /\ Cardinality(Between(Src, Dst)) = Len(cells)

\* C24 witness: a High piece has been walked along a whole column, 6 cells
\* being read on the way up.
C24_Witness ==
    /\ pc = "walked"
    /\ SrcBefore = Queen
    /\ Src.row = 7
    /\ Dst.row = 0
    /\ Len(CellsRead) = 6
    /\ last.kind = "Ok"

====
